---- MODULE Spec2Model ----
(***************************************************************************)
(* Model of push-new-stock-everyday.                                       *)
(*                                                                         *)
(*   Spec      the delivery orchestrator of src/main.py: main(), the two   *)
(*             push operations, the flag files under data/, the webhook.   *)
(*   SpecData  the lookback scan of src/stock_data.py over one upstream    *)
(*             table (column discovery, date filter, completeness check).  *)
(*   SpecRun   one invocation of main() under weak fairness, on a data/     *)
(*             directory whose reads and writes may fail.                  *)
(*   SpecLedger two processes that run the push operation of one feed on   *)
(*             one day, overlapping or one after the other, with crashes   *)
(*             and a faulty data/ directory.                               *)
(*   SpecUtil  the helpers of src/stock_data.py: is_trading_day(date) over *)
(*             one trading calendar, and one call of akshare_retry.        *)
(***************************************************************************)
EXTENDS Integers, Sequences, FiniteSets, TLC

VARIABLES
    \* ---- environment of src/main.py
    today,      \* get_beijing_time().date(), as a day index
    weekday,    \* get_beijing_time().weekday() of today: 0 = Monday .. 6 = Sunday
    flags,      \* the flag files that exist under data/: pairs <<feed, day>>
    \* ---- one invocation (main() or a direct call of a push operation)
    pc,         \* position in the invocation
    call,       \* [entry, task, test, at1430, calOpen] of the invocation
    cur,        \* the feed whose push operation is running
    data,       \* what the feed's fetch returned
    success,    \* what send_wecom_message returned for the feed's message
    ret,        \* per feed: the push operation's return value, FALSE before it returns
    run,        \* per feed: what its push operation did (see NoRun)
    sent,       \* the messages handed to the webhook with errcode 0 in this invocation
    response,   \* the structured outcome main() prints
    subAtStart, \* was the subscription flag of the start day set when the invocation began
    \* ---- history
    delivered,  \* the <<feed, day>> of every confirmed non-test delivery, by its day
    nInv,       \* invocations started so far
    \* ---- src/stock_data.py: one call of get_new_stock_subscriptions / _listings
    sd_pc,      \* "off", "scan", "returned"
    sd_feed,    \* which of the two functions is running
    sd_mode,    \* test_mode
    sd_table,   \* the table the upstream serves during this call (see TableIds)
    sd_i,       \* how many entries of dates_to_try the loop has gone through
    sd_tried,   \* per date (days before today): "untried", "nothing", "complete"
    sd_last,    \* how the last loop iteration ended
    sd_result,  \* the returned DataFrame: [columns, rows]
    \* ---- src/stock_data.py: one call of is_trading_day(date)
    cal_pc,     \* "off", "call", "returned"
    cal_query,  \* what ak.tool_trade_date_hist_sina() does: "ok" or "raises"
    cal_table,  \* the calendar it serves (see CalendarIds)
    cal_date,   \* the date asked about, as a day index (day 0 is a Monday)
    cal_ret,    \* what the call returned: "none" before it returns
    \* ---- src/stock_data.py: one call of akshare_retry(func)
    rt_pc,      \* "off", "call", "returned", "raised"
    rt_log,     \* per attempt made so far: did func raise
    rt_value,   \* the attempt whose result was returned, 0 without one
    \* ---- src/main.py: processes that run one push operation side by side
    lg_feed,    \* the feed they push
    lg          \* per process: its position and what it did (see NoProc)

mainVars == <<today, weekday, flags, pc, call, cur, data, success, ret, run,
              sent, response, subAtStart, delivered, nInv>>
dataVars == <<sd_pc, sd_feed, sd_mode, sd_table, sd_i, sd_tried, sd_last, sd_result>>
utilVars == <<cal_pc, cal_query, cal_table, cal_date, cal_ret, rt_pc, rt_log, rt_value>>
ledgerVars == <<lg_feed, lg>>
vars == <<mainVars, dataVars, utilVars, ledgerVars>>

\* ------------------------------------------------------------------ bounds
MaxDay == 1     \* days are 0..MaxDay
MaxInv == 2     \* invocations per behaviour

Days == 0..MaxDay
\* The weekdays day 0 may fall on. The code tells Monday..Friday from the
\* weekend and nothing more, so of the windows with no weekend in them the one
\* that ends on a Friday stands for all.
FirstWeekdays == {w \in 0..6 : w + MaxDay >= 4}
Feeds == {"new_stock", "listing"}
Tasks == {"push_new_stock", "test_message", "other"}

\* ------------------------------------------------------------------ src/main.py

\* is_trading_day(): Monday..Friday.
is_trading_day(wd) == 0 <= wd /\ wd <= 4

\* read_*_pushed_flag(date): does the feed's flag file of that date exist.
\* (Mutants: both feeds read the listing file; the file of the day before is
\* read.)
read_flag_of_listing(fl, f, d) == <<"listing", d>> \in fl
read_flag_of_yesterday(fl, f, d) == <<f, d - 1>> \in fl
read_pushed_flag(fl, f, d) == <<f, d>> \in fl

\* read_*_pushed_flag(date) on a data/ directory that may be unreadable:
\* os.path.exists answers False when it cannot stat the file.
\* (Mutant: an unreadable flag counts as pushed.)
unreadable_as_pushed(fl, f, d, readOk) == ~readOk \/ read_pushed_flag(fl, f, d)
read_flag_file(fl, f, d, readOk) == readOk /\ read_pushed_flag(fl, f, d)

\* mark_*_info_pushed(): write the flag file of the current date. The I/O goes
\* well ("ok"), or makedirs or open raises and no file is made ("open_fails"),
\* or open makes the file and the write raises ("write_fails"); the exception
\* is caught. A flag is a file that exists, whatever it holds.
MarkOutcomes == {"ok", "open_fails", "write_fails"}
mark_info_pushed(fl, f, d, io) == IF io = "open_fails" THEN fl ELSE fl \cup {<<f, d>>}

\* get_new_stock_subscriptions(test) / get_new_stock_listings(test) of main.py.
\* up is what the upstream call does: it raises, or serves an empty table, a
\* table with rows of today, or a non-empty table without rows of today.
UpstreamOutcomes == {"raises", "empty", "has_today", "no_today"}
main_fetch(up, test) ==
    CASE up = "raises" -> "None"
      [] up = "empty" -> "empty"
      [] up = "has_today" -> "today_rows"
      [] OTHER -> IF test THEN "head1" ELSE "empty"

\* The message of a push operation: the no-data text or the formatted rows,
\* with the test prefix in test mode.
\* (Mutant: only a failed fetch gets the no-data text.)
push_message_formats_empty(f, d, test) ==
    [feed |-> f,
     body |-> IF d = "None" THEN "no_data" ELSE "formatted",
     test |-> test]
push_message(f, d, test) ==
    [feed |-> f,
     body |-> IF d \in {"None", "empty"} THEN "no_data" ELSE "formatted",
     test |-> test]

\* send_wecom_message(content): webhook is whether WECOM_WEBHOOK is set, post is
\* what the POST does ("ok": errcode 0, "errcode": another errcode, "raises").
PostOutcomes == {"ok", "errcode", "raises"}
\* (Mutant: any answer of the webhook counts as sent.)
send_ignores_errcode(webhook, post) == webhook /\ post # "raises"
send_wecom_message(webhook, post) == webhook /\ post = "ok"

\* The guard of the mark call in a push operation.
\* (Mutants: the test mode is not looked at; the result of the send is not.)
mark_on_any_success(ok, test) == ok
mark_unless_test(ok, test) == ~test
should_mark(ok, test) == ok /\ ~test

\* main(): the status of the push_new_stock task.
overall_status(okNew, okListing) ==
    IF okNew /\ okListing THEN "success" ELSE "partial_success"

\* main(): what follows the return of push_new_stock_info: the call of
\* push_listing_info, whatever was returned.
\* (Mutant: a failed subscription feed ends the task.)
stop_after_failure(okNew) == IF okNew THEN "check_pushed" ELSE "respond"
after_new_stock(okNew) == "check_pushed"

\* ------------------------------------------------------------------ src/stock_data.py
\* Column names are sequences of tokens, so that Python's "kw in col" is a test
\* for a contiguous run of tokens. The Chinese words are written in pinyin:
\* gupiao daima = stock code, gupiao jiancheng = short name, mingcheng = name,
\* faxing jiage = issue price, shengou shangxian = subscription cap,
\* shengou riqi = subscription date, shangshi riqi = listing date,
\* weizhi = unknown, leixing = type.

MaxRows == 2            \* rows of the upstream table
LookbackDays == 22      \* range(0, 22)
RetryAttempts == 3      \* stop_max_attempt_number

Offsets == 0..(LookbackDays - 1)
NULL == "NULL"          \* a NaN / None cell
NaT == "NaT"            \* a date cell that is no date
Unknown == "weizhi"

\* date.strftime("%Y-%m-%d") of the day k days before today.
DateStr(k) == ToString(k)

Contains(s, kw) ==
    \E i \in 1..(Len(s) - Len(kw) + 1) : SubSeq(s, i, i + Len(kw) - 1) = kw

LowerToken(t) ==
    CASE t = "CODE" -> "code"
      [] t = "NAME" -> "name"
      [] t = "PRICE" -> "price"
      [] t = "LIMIT" -> "limit"
      [] t = "IPO_DATE" -> "ipo_date"
      [] t = "LISTING_DATE" -> "listing_date"
      [] OTHER -> t
Lower(s) == [i \in 1..Len(s) |-> LowerToken(s[i])]

NoCol == [name |-> <<>>, field |-> "none"]

is_subscription_date_col(c) ==
    \/ Contains(Lower(c), <<"shengou", "riqi">>)
    \/ Contains(Lower(c), <<"ipo_date">>)
    \/ Contains(Lower(c), <<"issue_date">>)
is_listing_date_col(c) ==
    \/ Contains(Lower(c), <<"shangshi", "riqi">>)
    \/ Contains(Lower(c), <<"listing_date">>)
is_code_col(c) == Contains(c, <<"daima">>) \/ Contains(Lower(c), <<"code">>)
\* (Mutant: '"jiancheng" in col or "name"', which is true of every column.)
is_name_col_always(c) == TRUE
is_name_col(c) ==
    \/ Contains(c, <<"mingcheng">>)
    \/ Contains(c, <<"jiancheng">>)
    \/ Contains(Lower(c), <<"name">>)
is_price_col(c) == Contains(c, <<"jiage">>) \/ Contains(Lower(c), <<"price">>)
is_limit_col(c) == Contains(c, <<"shangxian">>) \/ Contains(Lower(c), <<"limit">>)

\* next((col for col in raw_df.columns if <test>), None): hits are the
\* positions of the columns that pass the test.
FirstCol(cols, hits) ==
    IF hits # {}
    THEN cols[CHOOSE i \in hits : \A j \in hits : i <= j]
    ELSE NoCol
SubscriptionDateCol(cols) ==
    FirstCol(cols, {i \in 1..Len(cols) : is_subscription_date_col(cols[i].name)})
ListingDateCol(cols) ==
    FirstCol(cols, {i \in 1..Len(cols) : is_listing_date_col(cols[i].name)})
CodeCol(cols) == FirstCol(cols, {i \in 1..Len(cols) : is_code_col(cols[i].name)})
NameCol(cols) == FirstCol(cols, {i \in 1..Len(cols) : is_name_col(cols[i].name)})
PriceCol(cols) == FirstCol(cols, {i \in 1..Len(cols) : is_price_col(cols[i].name)})
LimitCol(cols) == FirstCol(cols, {i \in 1..Len(cols) : is_limit_col(cols[i].name)})

\* if not (code_col and name_col): continue
identity_missing(code_col, name_col) == ~(code_col # NoCol /\ name_col # NoCol)

\* target_df.get(col, "unknown"): the column's cell, or the default without one.
get_cell(r, col, default) == IF col = NoCol THEN default ELSE r[col.field]

\* df[col].isnull().all()
all_null(df, c) == \A i \in 1..Len(df.rows) : df.rows[i][c] = NULL

SubscriptionRequired ==
    {"gupiao_daima", "gupiao_jiancheng", "faxing_jiage", "shengou_shangxian",
     "shengou_riqi"}
ListingRequired == {"gupiao_daima", "gupiao_jiancheng", "faxing_jiage", "shangshi_riqi"}

\* (Mutant: only the presence of the columns is checked.)
completeness_columns_only(df) == \A c \in SubscriptionRequired : c \in df.columns
check_new_stock_completeness(df) ==
    \A c \in SubscriptionRequired : c \in df.columns /\ ~all_null(df, c)
check_new_listing_completeness(df) ==
    \A c \in ListingRequired : c \in df.columns /\ ~all_null(df, c)

\* dates_to_try, as days before today.
\* (Mutant: the window is gone through oldest first.)
dates_oldest_first(test_mode) ==
    IF test_mode THEN [i \in 1..LookbackDays |-> LookbackDays - i] ELSE <<0>>
dates_to_try(test_mode) ==
    IF test_mode THEN [i \in 1..LookbackDays |-> i - 1] ELSE <<0>>

\* akshare_retry(func): raises[n] says whether attempt n raises. The call goes
\* through the attempts up to the first that returns; it raises when none does.
akshare_retry(raises) ==
    IF \E n \in 1..RetryAttempts : ~raises[n]
    THEN [raised |-> FALSE,
          calls |-> CHOOSE n \in 1..RetryAttempts :
                        ~raises[n] /\ \A m \in 1..(n - 1) : raises[m]]
    ELSE [raised |-> TRUE, calls |-> RetryAttempts]

\* The retry decorator of akshare_retry: after an attempt that raised, no
\* further attempt is made once stop_max_attempt_number attempts were made.
\* (Mutant: one attempt more.)
retry_stop_late(attempts) == attempts > RetryAttempts
retry_should_stop(attempts) == attempts >= RetryAttempts

\* is_trading_day(date) of stock_data.py, the body of its try block: the query,
\* pd.to_datetime of the trade_date column, astype(int) of the is_open column,
\* and the open flag of the first row of the date. [raised, value].
calendar_lookup(query, cal, d) ==
    LET open_status == SelectSeq(cal.rows, LAMBDA r : r.trade_date = DateStr(d))
    IN  IF query = "raises" THEN [raised |-> TRUE, value |-> FALSE]
        ELSE IF \E i \in 1..Len(cal.rows) : cal.rows[i].trade_date = NaT
             THEN [raised |-> TRUE, value |-> FALSE]
        ELSE IF ~cal.hasOpen THEN [raised |-> TRUE, value |-> FALSE]
        ELSE IF \E i \in 1..Len(cal.rows) : cal.rows[i].is_open = NULL
             THEN [raised |-> TRUE, value |-> FALSE]
        ELSE [raised |-> FALSE,
              value |-> Len(open_status) > 0 /\ open_status[1].is_open = "1"]

\* date.weekday() < 5, day 0 being a Monday.
\* (Mutant: the Saturday counts as a trading day.)
weekday_fallback_saturday(d) == d % 7 <= 5
weekday_fallback(d) == d % 7 < 5

\* is_trading_day(date) of stock_data.py: the lookup, or the weekday rule when
\* the lookup raised.
stock_data_is_trading_day(query, cal, d) ==
    LET r == calendar_lookup(query, cal, d)
    IN IF r.raised THEN weekday_fallback(d) ELSE r.value

EmptyFrame == [columns |-> {}, rows |-> <<>>]

\* target_df[[code_col, name_col]].rename(...): with one column found for both,
\* the rename leaves no column of the code's name.
renamed_columns(code_col, name_col) ==
    IF code_col = name_col THEN {"gupiao_jiancheng"}
    ELSE {"gupiao_daima", "gupiao_jiancheng"}

\* One iteration of the loop of get_new_stock_subscriptions on the fetched
\* table t for the date k days before today: [why, df].
subscription_candidate(t, k) ==
    LET date_col == SubscriptionDateCol(t.cols)
        target == SelectSeq(t.rows, LAMBDA r : r[date_col.field] = DateStr(k))
        code_col == CodeCol(t.cols)
        name_col == NameCol(t.cols)
        price_col == PriceCol(t.cols)
        limit_col == LimitCol(t.cols)
        columns == renamed_columns(code_col, name_col)
                     \cup {"faxing_jiage", "shengou_shangxian", "shengou_riqi", "leixing"}
        result_df ==
            [columns |-> columns,
             rows |-> [i \in 1..Len(target) |->
                 [c \in columns |->
                     CASE c = "gupiao_daima" -> target[i][code_col.field]
                       [] c = "gupiao_jiancheng" -> target[i][name_col.field]
                       [] c = "faxing_jiage" -> get_cell(target[i], price_col, Unknown)
                       [] c = "shengou_shangxian" -> get_cell(target[i], limit_col, Unknown)
                       [] c = "shengou_riqi" -> DateStr(k)
                       [] OTHER -> "gupiao"]]]
    IN  IF t.rows = <<>> \/ t.cols = <<>> THEN [why |-> "empty_raw", df |-> EmptyFrame]
        ELSE IF date_col = NoCol THEN [why |-> "no_date_column", df |-> EmptyFrame]
        ELSE IF t.dateKind = "unparseable"
             THEN [why |-> "date_parse_failed", df |-> EmptyFrame]
        ELSE IF target = <<>> THEN [why |-> "no_rows", df |-> EmptyFrame]
        ELSE IF identity_missing(code_col, name_col)
             THEN [why |-> "missing_identity", df |-> EmptyFrame]
        ELSE IF ~check_new_stock_completeness(result_df) THEN [why |-> "incomplete", df |-> EmptyFrame]
        ELSE [why |-> "complete", df |-> result_df]

\* One iteration of the loop of get_new_stock_listings.
listing_candidate(t, k) ==
    LET listing_date_col == ListingDateCol(t.cols)
        target == SelectSeq(t.rows, LAMBDA r : r[listing_date_col.field] = DateStr(k))
        code_col == CodeCol(t.cols)
        name_col == NameCol(t.cols)
        price_col == PriceCol(t.cols)
        columns == renamed_columns(code_col, name_col)
                     \cup {"faxing_jiage", "shangshi_riqi", "leixing"}
        result_df ==
            [columns |-> columns,
             rows |-> [i \in 1..Len(target) |->
                 [c \in columns |->
                     CASE c = "gupiao_daima" -> target[i][code_col.field]
                       [] c = "gupiao_jiancheng" -> target[i][name_col.field]
                       [] c = "faxing_jiage" -> get_cell(target[i], price_col, Unknown)
                       [] c = "shangshi_riqi" -> DateStr(k)
                       [] OTHER -> "gupiao"]]]
    IN  IF t.rows = <<>> \/ t.cols = <<>> THEN [why |-> "empty_raw", df |-> EmptyFrame]
        ELSE IF listing_date_col = NoCol THEN [why |-> "no_date_column", df |-> EmptyFrame]
        ELSE IF t.dateKind = "unparseable"
             THEN [why |-> "date_parse_failed", df |-> EmptyFrame]
        ELSE IF target = <<>> THEN [why |-> "no_rows", df |-> EmptyFrame]
        ELSE IF identity_missing(code_col, name_col)
             THEN [why |-> "missing_identity", df |-> EmptyFrame]
        ELSE IF ~check_new_listing_completeness(result_df) THEN [why |-> "incomplete", df |-> EmptyFrame]
        ELSE [why |-> "complete", df |-> result_df]

\* ------------------------------------------------------------------ upstream tables
ColCode == [name |-> <<"gupiao", "daima">>, field |-> "code"]
ColName == [name |-> <<"gupiao", "jiancheng">>, field |-> "name"]
ColCap == [name |-> <<"shengou", "shangxian">>, field |-> "cap"]
ColPrice == [name |-> <<"faxing", "jiage">>, field |-> "price"]
ColSDate == [name |-> <<"shengou", "riqi">>, field |-> "sdate"]
ColLDate == [name |-> <<"shangshi", "riqi">>, field |-> "ldate"]
EnCode == [name |-> <<"CODE">>, field |-> "code"]
EnName == [name |-> <<"NAME">>, field |-> "name"]
EnPrice == [name |-> <<"PRICE">>, field |-> "price"]
EnLimit == [name |-> <<"LIMIT">>, field |-> "cap"]
EnSDate == [name |-> <<"IPO_DATE">>, field |-> "sdate"]
EnLDate == [name |-> <<"LISTING_DATE">>, field |-> "ldate"]
ColCodeName == [name |-> <<"code", "_", "name">>, field |-> "code"]

FullCols == <<ColCode, ColName, ColCap, ColPrice, ColSDate, ColLDate>>

\* The headers the upstream serves: the columns in order, and how the date
\* columns are typed ("object": strings or dates that to_datetime parses,
\* "datetime64": already datetimes, "unparseable": to_datetime raises).
TableHeads ==
    <<[cols |-> FullCols, dateKind |-> "object"],
      [cols |-> <<ColCode, ColName, ColPrice, ColSDate, ColLDate>>, dateKind |-> "object"],
      [cols |-> <<ColCode, ColName, ColCap, ColSDate, ColLDate>>, dateKind |-> "object"],
      [cols |-> <<ColSDate, ColName, ColCap, ColPrice, ColLDate>>, dateKind |-> "object"],
      [cols |-> <<ColPrice, ColCode, ColCap, ColSDate, ColLDate>>, dateKind |-> "object"],
      [cols |-> <<ColCode, ColName, ColCap, ColPrice>>, dateKind |-> "object"],
      [cols |-> <<EnCode, EnName, EnPrice, EnLimit, EnSDate, EnLDate>>,
       dateKind |-> "object"],
      [cols |-> <<ColCodeName, ColCap, ColPrice, ColSDate, ColLDate>>,
       dateKind |-> "object"],
      [cols |-> FullCols, dateKind |-> "datetime64"],
      [cols |-> FullCols, dateKind |-> "unparseable"]>>

Row(code, name, price, cap, sdate, ldate) ==
    [f \in {"code", "name", "price", "cap", "sdate", "ldate"} |->
        CASE f = "code" -> code
          [] f = "name" -> name
          [] f = "price" -> price
          [] f = "cap" -> cap
          [] f = "sdate" -> sdate
          [] OTHER -> ldate]

\* The rows the upstream serves.
RowShapes ==
    <<Row("688001", "hxyc", "24.26", "9500", DateStr(0), DateStr(0)),
      Row("301001", "kdxc", "10.00", "5000", DateStr(1), DateStr(1)),
      Row(NULL, "hxyc", "24.26", "9500", DateStr(0), DateStr(0)),
      Row("688001", NULL, "24.26", "9500", DateStr(0), DateStr(0)),
      Row("688001", "hxyc", NULL, "9500", DateStr(0), DateStr(0)),
      Row("688001", "hxyc", "24.26", NULL, DateStr(0), DateStr(0)),
      Row("603001", "zzgf", "8.80", "7000", NaT, NaT)>>

\* A table in the state is the index of its header and the indices of its rows,
\* which it holds in the order of RowShapes.
TableIds ==
    {[head |-> h, rows |-> rs] :
        h \in 1..Len(TableHeads),
        rs \in {x \in SUBSET (1..Len(RowShapes)) : Cardinality(x) <= MaxRows}}
raw_df(id) ==
    LET picked == SelectSeq([i \in 1..Len(RowShapes) |-> i], LAMBDA i : i \in id.rows)
    IN [cols |-> TableHeads[id.head].cols,
        dateKind |-> TableHeads[id.head].dateKind,
        rows |-> [i \in 1..Len(picked) |-> RowShapes[picked[i]]]]

\* ------------------------------------------------------------------ trading calendars
MaxCalRows == 2         \* rows of the trading calendar

\* The dates asked about: a Monday, a Tuesday, a Friday, a Saturday, a Sunday.
CalDates == {0, 1, 4, 5, 6}

CalRow(trade_date, is_open) == [trade_date |-> trade_date, is_open |-> is_open]

\* The rows the calendar source serves: a date that is open, closed, or has no
\* flag, and a row whose date does not parse.
CalRowShapes ==
    <<CalRow(DateStr(0), "1"),
      CalRow(DateStr(0), "0"),
      CalRow(DateStr(5), "0"),
      CalRow(DateStr(5), "1"),
      CalRow(DateStr(4), "1"),
      CalRow(DateStr(4), NULL),
      CalRow(NaT, "1")>>

\* A calendar in the state: whether it has the is_open column, and the indices
\* of its rows, one row per date at most.
CalendarIds ==
    {[hasOpen |-> h, rows |-> rs] :
        h \in BOOLEAN,
        rs \in {x \in SUBSET (1..Len(CalRowShapes)) :
                    /\ Cardinality(x) <= MaxCalRows
                    /\ \A i, j \in x :
                        CalRowShapes[i].trade_date = CalRowShapes[j].trade_date => i = j}}
trade_cal(id) ==
    LET picked == SelectSeq([i \in 1..Len(CalRowShapes) |-> i], LAMBDA i : i \in id.rows)
    IN [hasOpen |-> id.hasOpen,
        rows |-> [i \in 1..Len(picked) |-> CalRowShapes[picked[i]]]]

\* ------------------------------------------------------------------ states

\* What a push operation did in this invocation: checked (it read the flag of
\* chkDay, and flagAtCheck is whether that file existed), skipped (it returned
\* at the flag), fetches and sends (calls made), raised (the fetch raised),
\* marked (it wrote the flag).
NoRun == [checked |-> FALSE, chkDay |-> 0, flagAtCheck |-> FALSE, skipped |-> FALSE,
          fetches |-> 0, raised |-> FALSE, sends |-> 0, marked |-> FALSE]
\* The invocation: its entry point and arguments, whether the wall clock stood
\* at the 14:30 checkpoint when it began, and what the trading-calendar source
\* reports for the day it began on (the exchange never opens on a weekend).
NoCall == [entry |-> "none", task |-> "none", test |-> FALSE, at1430 |-> FALSE,
           calOpen |-> FALSE]
NoResponse == [status |-> "none", new_stock |-> "none", listing |-> "none"]

\* No invocation running.
NoInvocation ==
    /\ pc = "idle"
    /\ call = NoCall
    /\ cur = "new_stock"
    /\ data = "none"
    /\ success = FALSE
    /\ ret = [f \in Feeds |-> FALSE]
    /\ run = [f \in Feeds |-> NoRun]
    /\ sent = <<>>
    /\ response = NoResponse
    /\ subAtStart = FALSE

\* No invocation running, no flag file written yet.
MainIdle ==
    /\ today = 0
    /\ flags = {}
    /\ delivered = {}
    /\ nInv = 0
    /\ NoInvocation

InitDataIdle ==
    /\ sd_pc = "off"
    /\ sd_feed = "new_stock"
    /\ sd_mode = FALSE
    /\ sd_table = [head |-> 1, rows |-> {}]
    /\ sd_i = 0
    /\ sd_tried = [k \in Offsets |-> "untried"]
    /\ sd_last = "none"
    /\ sd_result = EmptyFrame

UtilIdle ==
    /\ cal_pc = "off"
    /\ cal_query = "ok"
    /\ cal_table = [hasOpen |-> TRUE, rows |-> {}]
    /\ cal_date = 0
    /\ cal_ret = "none"
    /\ rt_pc = "off"
    /\ rt_log = <<>>
    /\ rt_value = 0

\* A process of the side-by-side runs: its position (crashed: the process was
\* killed, crashedAt says where), its test argument, the processes that were
\* over when it began, whether the flag file existed when it checked and
\* whether the read failed, what the read answered, the fetch and send calls it
\* made, what send_wecom_message returned, whether the webhook answered
\* errcode 0 to its message, what its flag write did, and its return value.
Procs == {"p1", "p2"}
NoProc == [pc |-> "idle", test |-> FALSE, after |-> {}, flagAtCheck |-> FALSE,
           unreadable |-> FALSE, is_pushed |-> FALSE, data |-> "none", fetches |-> 0,
           sends |-> 0, success |-> FALSE, confirmed |-> FALSE, io |-> "none",
           ret |-> FALSE, crashedAt |-> "none"]
LedgerIdle ==
    /\ lg_feed = "new_stock"
    /\ lg = [p \in Procs |-> NoProc]

Init == MainIdle /\ weekday \in FirstWeekdays /\ InitDataIdle /\ UtilIdle /\ LedgerIdle

\* The clock passes midnight, at any moment of an invocation or between two.
Tick ==
    /\ today < MaxDay
    /\ today' = today + 1
    /\ weekday' = (weekday + 1) % 7
    /\ UNCHANGED <<flags, pc, call, cur, data, success, ret, run, sent, response,
                   subAtStart, delivered, nInv>>
    /\ UNCHANGED <<dataVars, utilVars, ledgerVars>>

\* An invocation starts with the locals of a fresh process.
Begin(entry, task, f, test, at1430, calOpen, first) ==
    /\ pc = "idle"
    /\ nInv < MaxInv
    /\ nInv' = nInv + 1
    /\ call' = [entry |-> entry, task |-> task, test |-> test, at1430 |-> at1430,
                calOpen |-> calOpen]
    /\ cur' = f
    /\ pc' = first
    /\ data' = "none"
    /\ success' = FALSE
    /\ ret' = [g \in Feeds |-> FALSE]
    /\ run' = [g \in Feeds |-> NoRun]
    /\ sent' = <<>>
    /\ subAtStart' = (<<"new_stock", today>> \in flags)
    /\ UNCHANGED <<today, weekday, flags, delivered>>
    /\ UNCHANGED <<dataVars, utilVars, ledgerVars>>

\* main() up to its first call: the dispatch on TASK, and for push_new_stock
\* the trading-day check, which ends the invocation on a non-trading day.
\* (Mutant: an unknown task raises instead of being answered.)
main_entry_raises(task, wd) ==
    IF task = "push_new_stock"
    THEN IF ~is_trading_day(wd) THEN "done" ELSE "check_pushed"
    ELSE IF task = "test_message" THEN "test_message" ELSE "uncaught"
main_entry(task, wd) ==
    IF task = "push_new_stock"
    THEN IF ~is_trading_day(wd) THEN "done" ELSE "check_pushed"
    ELSE IF task = "test_message" THEN "test_message" ELSE "unknown_task"

InvokeMain ==
    \E task \in Tasks, at1430 \in BOOLEAN, calOpen \in BOOLEAN :
        /\ calOpen => weekday < 5
        /\ Begin("main", task, "new_stock", FALSE, at1430, calOpen,
                 main_entry(task, weekday))
        /\ response' = IF main_entry(task, weekday) = "done"
                       THEN [NoResponse EXCEPT !.status = "skipped"]
                       ELSE NoResponse

\* A direct call of push_new_stock_info(test) or push_listing_info(test).
InvokeDirect ==
    \E f \in Feeds, test \in BOOLEAN :
        /\ Begin("direct", "none", f, test, FALSE, FALSE, "check_pushed")
        /\ response' = NoResponse

\* The end of a push operation: its return value, its locals gone, then the
\* caller's next step.
Return(f, value) ==
    /\ IF call.entry = "direct"
       THEN /\ pc' = "done"
            /\ cur' = cur
       ELSE IF f = "new_stock"
       THEN /\ pc' = after_new_stock(value)
            /\ cur' = "listing"
       ELSE /\ pc' = "respond"
            /\ cur' = cur
    /\ ret' = [ret EXCEPT ![f] = value]
    /\ data' = "none"
    /\ success' = FALSE

\* push_*_info: outside test mode, read today's flag and return True when set.
CheckPushed ==
    /\ pc = "check_pushed"
    /\ LET pushed == ~call.test /\ read_pushed_flag(flags, cur, today)
           r == [run[cur] EXCEPT !.checked = ~call.test, !.chkDay = today,
                                 !.flagAtCheck = ~call.test /\ <<cur, today>> \in flags,
                                 !.skipped = pushed]
       IN /\ run' = [run EXCEPT ![cur] = r]
          /\ IF pushed
             THEN Return(cur, TRUE)
             ELSE /\ pc' = "fetch"
                  /\ UNCHANGED <<ret, cur, data, success>>
    /\ UNCHANGED <<today, weekday, flags, call, sent, response,
                   subAtStart, delivered, nInv>>
    /\ UNCHANGED <<dataVars, utilVars, ledgerVars>>

\* push_*_info: the fetch.
Fetch ==
    /\ pc = "fetch"
    /\ \E up \in UpstreamOutcomes :
        /\ data' = main_fetch(up, call.test)
        /\ run' = [run EXCEPT ![cur].fetches = @ + 1, ![cur].raised = (up = "raises")]
    /\ pc' = "send"
    /\ UNCHANGED <<today, weekday, flags, call, cur, success, ret, sent,
                   response, subAtStart, delivered, nInv>>
    /\ UNCHANGED <<dataVars, utilVars, ledgerVars>>

\* push_*_info: build the message and send it; without the mark call to make,
\* return the result of the send.
Send ==
    /\ pc = "send"
    /\ \E webhook \in BOOLEAN, post \in PostOutcomes :
        LET ok == send_wecom_message(webhook, post)
            msg == push_message(cur, data, call.test)
        IN /\ sent' = IF ok THEN Append(sent, msg) ELSE sent
           /\ delivered' = IF ok /\ ~call.test
                           THEN delivered \cup {<<cur, today>>}
                           ELSE delivered
           /\ run' = [run EXCEPT ![cur].sends = @ + 1]
           /\ IF should_mark(ok, call.test)
              THEN /\ pc' = "mark"
                   /\ success' = ok
                   /\ UNCHANGED <<ret, cur, data>>
              ELSE Return(cur, ok)
    /\ UNCHANGED <<today, weekday, flags, call, response, subAtStart, nInv>>
    /\ UNCHANGED <<dataVars, utilVars, ledgerVars>>

\* push_*_info: mark_*_info_pushed() under the date of the moment of the write,
\* then return the result of the send.
Mark ==
    /\ pc = "mark"
    /\ \E io \in MarkOutcomes :
        /\ flags' = mark_info_pushed(flags, cur, today, io)
        /\ run' = [run EXCEPT ![cur].marked = (io # "open_fails")]
    /\ Return(cur, success)
    /\ UNCHANGED <<today, weekday, call, sent, response,
                   subAtStart, delivered, nInv>>
    /\ UNCHANGED <<dataVars, utilVars, ledgerVars>>

\* main(): the response of the push_new_stock task.
Respond ==
    /\ pc = "respond"
    /\ response' = [status |-> overall_status(ret["new_stock"], ret["listing"]),
                    new_stock |-> IF ret["new_stock"] THEN "success" ELSE "failed",
                    listing |-> IF ret["listing"] THEN "success" ELSE "failed"]
    /\ pc' = "done"
    /\ UNCHANGED <<today, weekday, flags, call, cur, data, success, ret, run,
                   sent, subAtStart, delivered, nInv>>
    /\ UNCHANGED <<dataVars, utilVars, ledgerVars>>

\* main(): the test_message task.
TestMessage ==
    /\ pc = "test_message"
    /\ \E webhook \in BOOLEAN, post \in PostOutcomes :
        LET ok == send_wecom_message(webhook, post)
        IN /\ sent' = IF ok
                      THEN Append(sent, [feed |-> "none", body |-> "test_ping", test |-> TRUE])
                      ELSE sent
           /\ response' = [NoResponse EXCEPT !.status = IF ok THEN "success" ELSE "failed"]
    /\ pc' = "done"
    /\ UNCHANGED <<today, weekday, flags, call, cur, data, success, ret, run,
                   subAtStart, delivered, nInv>>
    /\ UNCHANGED <<dataVars, utilVars, ledgerVars>>

\* main(): any other task.
UnknownTask ==
    /\ pc = "unknown_task"
    /\ \E webhook \in BOOLEAN, post \in PostOutcomes :
        LET ok == send_wecom_message(webhook, post)
        IN sent' = IF ok
                   THEN Append(sent, [feed |-> "none", body |-> "unknown_task", test |-> FALSE])
                   ELSE sent
    /\ response' = [NoResponse EXCEPT !.status = "error"]
    /\ pc' = "done"
    /\ UNCHANGED <<today, weekday, flags, call, cur, data, success, ret, run,
                   subAtStart, delivered, nInv>>
    /\ UNCHANGED <<dataVars, utilVars, ledgerVars>>

\* The invocation is over; the process exits and its locals are gone.
Exit ==
    /\ pc = "done"
    /\ pc' = "idle"
    /\ call' = NoCall
    /\ cur' = "new_stock"
    /\ data' = "none"
    /\ success' = FALSE
    /\ ret' = [f \in Feeds |-> FALSE]
    /\ run' = [f \in Feeds |-> NoRun]
    /\ sent' = <<>>
    /\ response' = NoResponse
    /\ subAtStart' = FALSE
    /\ UNCHANGED <<today, weekday, flags, delivered, nInv>>
    /\ UNCHANGED <<dataVars, utilVars, ledgerVars>>

Next ==
    \/ Tick
    \/ InvokeMain
    \/ InvokeDirect
    \/ CheckPushed
    \/ Fetch
    \/ Send
    \/ Mark
    \/ Respond
    \/ TestMessage
    \/ UnknownTask
    \/ Exit

Spec == Init /\ [][Next]_vars
\* ------------------------------------------------------------------ one run of main()
\* One invocation of main() from any state of the flag files, on a data/
\* directory whose reads may fail as well as its writes. The process, once
\* started, keeps running: every call it makes returns or raises.
InitRun ==
    /\ today = 0
    /\ weekday \in FirstWeekdays
    /\ flags \in SUBSET (Feeds \X {0})
    /\ delivered = flags
    /\ nInv = 0
    /\ NoInvocation
    /\ InitDataIdle
    /\ UtilIdle
    /\ LedgerIdle

InvokeRun ==
    /\ nInv = 0
    /\ \E task \in Tasks :
        /\ Begin("main", task, "new_stock", FALSE, FALSE, weekday < 5,
                 main_entry(task, weekday))
        /\ response' = IF main_entry(task, weekday) = "done"
                       THEN [NoResponse EXCEPT !.status = "skipped"]
                       ELSE NoResponse

\* push_*_info: the flag check when the flag file cannot be read: not pushed.
CheckUnreadable ==
    /\ pc = "check_pushed"
    /\ ~call.test
    /\ ~read_flag_file(flags, cur, today, FALSE)
    /\ run' = [run EXCEPT ![cur] = [@ EXCEPT !.checked = TRUE, !.chkDay = today,
                                             !.flagAtCheck = <<cur, today>> \in flags,
                                             !.skipped = FALSE]]
    /\ pc' = "fetch"
    /\ UNCHANGED <<today, weekday, flags, call, cur, data, success, ret, sent, response,
                   subAtStart, delivered, nInv>>
    /\ UNCHANGED <<dataVars, utilVars, ledgerVars>>

RunStep ==
    \/ CheckPushed
    \/ CheckUnreadable
    \/ Fetch
    \/ Send
    \/ Mark
    \/ Respond
    \/ TestMessage
    \/ UnknownTask

NextRun ==
    \/ Tick
    \/ InvokeRun
    \/ RunStep

\* Every step of the process moves pc or cur.
SpecRun == InitRun /\ [][NextRun]_vars /\ WF_<<pc, cur>>(RunStep)
\* ------------------------------------------------------------------ side-by-side runs
\* Two processes run push_new_stock_info(test) or push_listing_info(test) of
\* one feed within one day. Their steps interleave in any order; a process may
\* be killed between two steps; the data/ directory may fail a read or a write.
InitLedger ==
    /\ MainIdle
    /\ weekday = 0
    /\ InitDataIdle
    /\ UtilIdle
    /\ lg_feed \in Feeds
    /\ lg = [p \in Procs |-> NoProc]

LedgerFrame ==
    /\ UNCHANGED <<today, weekday, pc, call, cur, data, success, ret, run, sent,
                   response, subAtStart, delivered, nInv, lg_feed>>
    /\ UNCHANGED <<dataVars, utilVars>>

ProcBegin(p) ==
    /\ lg[p].pc = "idle"
    /\ \E test \in BOOLEAN :
        lg' = [lg EXCEPT ![p] = [@ EXCEPT !.pc = "check_pushed", !.test = test,
                    !.after = {q \in Procs : lg[q].pc \in {"done", "crashed"}}]]
    /\ UNCHANGED flags
    /\ LedgerFrame

\* if not test: read the flag of today, and return True when it is set.
ProcCheck(p) ==
    /\ lg[p].pc = "check_pushed"
    /\ \E readOk \in BOOLEAN :
        LET pushed == ~lg[p].test /\ read_flag_file(flags, lg_feed, today, readOk)
        IN lg' = [lg EXCEPT ![p] = [@ EXCEPT
                    !.flagAtCheck = ~lg[p].test /\ <<lg_feed, today>> \in flags,
                    !.unreadable = ~lg[p].test /\ ~readOk,
                    !.is_pushed = pushed,
                    !.pc = IF pushed THEN "done" ELSE "fetch",
                    !.ret = pushed]]
    /\ UNCHANGED flags
    /\ LedgerFrame

ProcFetch(p) ==
    /\ lg[p].pc = "fetch"
    /\ \E up \in UpstreamOutcomes :
        lg' = [lg EXCEPT ![p] = [@ EXCEPT !.data = main_fetch(up, lg[p].test),
                                          !.fetches = @ + 1, !.pc = "send"]]
    /\ UNCHANGED flags
    /\ LedgerFrame

ProcSend(p) ==
    /\ lg[p].pc = "send"
    /\ \E webhook \in BOOLEAN, post \in PostOutcomes :
        LET ok == send_wecom_message(webhook, post)
        IN lg' = [lg EXCEPT ![p] = [@ EXCEPT
                    !.sends = @ + 1,
                    !.success = ok,
                    !.confirmed = webhook /\ post = "ok",
                    !.data = "none",
                    !.pc = IF should_mark(ok, lg[p].test) THEN "mark" ELSE "done",
                    !.ret = IF should_mark(ok, lg[p].test) THEN FALSE ELSE ok]]
    /\ UNCHANGED flags
    /\ LedgerFrame

ProcMark(p) ==
    /\ lg[p].pc = "mark"
    /\ \E io \in MarkOutcomes :
        /\ flags' = mark_info_pushed(flags, lg_feed, today, io)
        /\ lg' = [lg EXCEPT ![p] = [@ EXCEPT !.io = io, !.pc = "done",
                                             !.ret = lg[p].success]]
    /\ LedgerFrame

\* The process is killed between two steps.
ProcCrash(p) ==
    /\ lg[p].pc \in {"check_pushed", "fetch", "send", "mark"}
    /\ lg' = [lg EXCEPT ![p] = [@ EXCEPT !.pc = "crashed", !.crashedAt = lg[p].pc]]
    /\ UNCHANGED flags
    /\ LedgerFrame

NextLedger ==
    \E p \in Procs :
        \/ ProcBegin(p)
        \/ ProcCheck(p)
        \/ ProcFetch(p)
        \/ ProcSend(p)
        \/ ProcMark(p)
        \/ ProcCrash(p)

SpecLedger == InitLedger /\ [][NextLedger]_vars
\* ------------------------------------------------------------------ the lookback scan
\* A call of get_new_stock_subscriptions(test_mode) or
\* get_new_stock_listings(test_mode) against one upstream table.
InitData ==
    /\ MainIdle
    /\ weekday = 0
    /\ sd_pc = "scan"
    /\ sd_feed \in Feeds
    /\ sd_mode \in BOOLEAN
    /\ sd_table \in TableIds
    /\ sd_i = 0
    /\ sd_tried = [k \in Offsets |-> "untried"]
    /\ sd_last = "none"
    /\ sd_result = EmptyFrame
    /\ UtilIdle
    /\ LedgerIdle

\* One iteration of the for loop: fetch with retries, normalise, and either
\* return the candidate's rows or go on to the next date.
Candidate(f) ==
    /\ sd_pc = "scan"
    /\ sd_feed = f
    /\ sd_i < Len(dates_to_try(sd_mode))
    /\ \E raised \in {akshare_retry(r).raised : r \in [1..RetryAttempts -> BOOLEAN]} :
        LET k == dates_to_try(sd_mode)[sd_i + 1]
            got == IF raised
                   THEN [why |-> "fetch_exception", df |-> EmptyFrame]
                   ELSE IF f = "new_stock"
                        THEN subscription_candidate(raw_df(sd_table), k)
                        ELSE listing_candidate(raw_df(sd_table), k)
        IN /\ sd_last' = got.why
           /\ sd_i' = sd_i + 1
           /\ IF got.why = "complete"
              THEN /\ sd_tried' = [sd_tried EXCEPT ![k] = "complete"]
                   /\ sd_result' = got.df
                   /\ sd_pc' = "returned"
              ELSE /\ sd_tried' = [sd_tried EXCEPT ![k] = "nothing"]
                   /\ UNCHANGED <<sd_result, sd_pc>>
    /\ UNCHANGED <<sd_feed, sd_mode, sd_table>>
    /\ UNCHANGED <<mainVars, utilVars, ledgerVars>>

SubscriptionCandidate == Candidate("new_stock")
ListingCandidate == Candidate("listing")

\* The loop is over without a return: return pd.DataFrame().
Exhausted ==
    /\ sd_pc = "scan"
    /\ sd_i = Len(dates_to_try(sd_mode))
    /\ sd_result' = EmptyFrame
    /\ sd_pc' = "returned"
    /\ UNCHANGED <<sd_feed, sd_mode, sd_table, sd_i, sd_tried, sd_last>>
    /\ UNCHANGED <<mainVars, utilVars, ledgerVars>>

NextData ==
    \/ SubscriptionCandidate
    \/ ListingCandidate
    \/ Exhausted

SpecData == InitData /\ [][NextData]_vars
\* ------------------------------------------------------------------ the helpers
\* One call of is_trading_day(date) against one calendar, and one call of
\* akshare_retry(func).
InitUtil ==
    /\ MainIdle
    /\ weekday = 0
    /\ InitDataIdle
    /\ cal_pc = "call"
    /\ cal_query \in {"ok", "raises"}
    /\ cal_table \in CalendarIds
    /\ cal_date \in CalDates
    /\ cal_ret = "none"
    /\ rt_pc = "call"
    /\ rt_log = <<>>
    /\ rt_value = 0
    /\ LedgerIdle

TradingDayCall ==
    /\ cal_pc = "call"
    /\ cal_ret' = stock_data_is_trading_day(cal_query, trade_cal(cal_table), cal_date)
    /\ cal_pc' = "returned"
    /\ UNCHANGED <<cal_query, cal_table, cal_date, rt_pc, rt_log, rt_value>>
    /\ UNCHANGED <<mainVars, dataVars, ledgerVars>>

\* One attempt of akshare_retry: func returns, and the call returns its result;
\* or func raises, and the call tries again or gives up and raises.
Attempt ==
    /\ rt_pc = "call"
    /\ \E raises \in BOOLEAN :
        /\ rt_log' = Append(rt_log, raises)
        /\ IF ~raises
           THEN /\ rt_pc' = "returned"
                /\ rt_value' = Len(rt_log) + 1
           ELSE /\ rt_pc' = IF retry_should_stop(Len(rt_log) + 1) THEN "raised" ELSE "call"
                /\ rt_value' = rt_value
    /\ UNCHANGED <<cal_pc, cal_query, cal_table, cal_date, cal_ret>>
    /\ UNCHANGED <<mainVars, dataVars, ledgerVars>>

NextUtil ==
    \/ TradingDayCall
    \/ Attempt

SpecUtil == InitUtil /\ [][NextUtil]_vars
\* ------------------------------------------------------------------ claims
SentOk(f) == \E i \in 1..Len(sent) : sent[i].feed = f
IsPushTask == call.entry = "main" /\ call.task = "push_new_stock"

\* C1: a non-test push operation that finds the flag of the date it consults set
\* ends as skipped and returns True, with no fetch and no call of the notifier;
\* and a confirmed non-test delivery (the operation stands before its mark call)
\* is only ever made when neither the flag of the consulted date nor the flag of
\* the current date was set, so the deliveries of a flagged (feed, date) do not grow.
C1_IdempotentGate ==
    /\ \A f \in Feeds :
        (pc # "idle" /\ ~call.test /\ run[f].checked /\ run[f].flagAtCheck)
            => /\ run[f].skipped
               /\ run[f].fetches = 0
               /\ run[f].sends = 0
               /\ ~SentOk(f)
               /\ ret[f] = TRUE
    /\ pc = "mark" => /\ <<cur, run[cur].chkDay>> \notin flags
                      /\ <<cur, today>> \notin flags
C1_Witness ==
    /\ pc = "done"
    /\ IsPushTask
    /\ \A f \in Feeds : run[f].flagAtCheck /\ run[f].skipped /\ <<f, today>> \in delivered
    /\ response.status = "success"

\* C2: a flag of (feed, date) exists only if a non-test delivery of that feed was
\* confirmed on that date or before; the mark call is reached only after a
\* successful send outside test mode; and no step removes a flag.
C2_State ==
    /\ \A k \in flags : \E d \in 0..k[2] : <<k[1], d>> \in delivered
    /\ pc = "mark" => success /\ ~call.test
\* C2: the ledger property holds in every state, and flags are never removed.
C2_LedgerInvariant == [](C2_State) /\ [][flags \subseteq flags']_vars
C2_Witness ==
    /\ pc = "done"
    /\ call.test
    /\ SentOk("new_stock")
    /\ flags = {<<"listing", today>>}

\* C3: when the calendar reports the day closed, the push_new_stock task makes
\* no fetch, no send and no flag write, and ends skipped.
C3_TradingDayGate ==
    (pc # "idle" /\ IsPushTask /\ ~call.calOpen)
        => /\ \A f \in Feeds : run[f].fetches = 0 /\ run[f].sends = 0 /\ ~run[f].marked
           /\ pc = "done"
           /\ response.status = "skipped"

\* C4: an invocation of main() at the 14:30 checkpoint that began with the
\* subscription flag of the day unset, and that passed the trading-day test,
\* has sent exactly one alert message when it ends.
C4_Escalation ==
    (/\ pc = "done" /\ call.entry = "main" /\ call.at1430 /\ ~subAtStart
     /\ IsPushTask /\ response.status # "skipped")
        => Cardinality({i \in 1..Len(sent) : sent[i].body = "alert"}) = 1

\* C5: the status of the push_new_stock task on a trading day is "success"
\* exactly when both feeds succeeded and "partial_success" exactly when one did.
C5_StatusMapping ==
    (pc = "done" /\ IsPushTask /\ response.status # "skipped")
        => /\ response.status = "success"
                <=> (ret["new_stock"] = TRUE /\ ret["listing"] = TRUE)
           /\ response.status = "partial_success"
                <=> (ret["new_stock"] = TRUE) # (ret["listing"] = TRUE)

\* C6: a feed whose fetch raised is reported failed, and the invocation does not
\* write its flag.
C6_FetchFailureFails ==
    \A f \in Feeds :
        (pc = "done" /\ IsPushTask /\ run[f].raised)
            => response[f] = "failed" /\ ~run[f].marked

\* C7: on a trading day the push_new_stock task runs the listing feed whatever
\* the subscription feed did; each feed's result is that of its own flag check
\* and its own send; a feed's flag is written only after its own confirmed send;
\* and while one feed runs, the flags of the other do not change.
C7_State ==
    (pc \in {"respond", "done"} /\ IsPushTask /\ response.status # "skipped")
        => \A f \in Feeds :
            /\ run[f].checked
            /\ ~run[f].skipped => run[f].fetches = 1 /\ run[f].sends = 1
            /\ ret[f] = (run[f].skipped \/ SentOk(f))
            /\ run[f].marked => SentOk(f)
\* C7: the per-feed results hold in every state, and a step taken for one feed
\* leaves the flags of the other feed as they were.
C7_FeedIsolation ==
    /\ [](C7_State)
    /\ [][\A f \in Feeds :
            cur # f => {k \in flags' : k[1] = f} = {k \in flags : k[1] = f}]_vars
C7_Witness ==
    /\ pc = "done"
    /\ IsPushTask
    /\ run["new_stock"].raised
    /\ ret["new_stock"] = FALSE
    /\ ret["listing"] = TRUE
    /\ run["listing"].marked
    /\ \A d \in Days : <<"new_stock", d>> \notin flags

\* C8: a table in which no column name holds a code keyword, or none holds a
\* name keyword, gives an empty result, in both modes and for both feeds.
NoCodeColumn(t) ==
    \A i \in 1..Len(t.cols) :
        /\ ~Contains(t.cols[i].name, <<"daima">>)
        /\ ~Contains(Lower(t.cols[i].name), <<"code">>)
NoNameColumn(t) ==
    \A i \in 1..Len(t.cols) :
        /\ ~Contains(t.cols[i].name, <<"mingcheng">>)
        /\ ~Contains(t.cols[i].name, <<"jiancheng">>)
        /\ ~Contains(Lower(t.cols[i].name), <<"name">>)
C8_CompletenessGate ==
    (sd_pc = "returned" /\ (NoCodeColumn(raw_df(sd_table)) \/ NoNameColumn(raw_df(sd_table))))
        => sd_result.rows = <<>>
C8_Witness ==
    /\ sd_pc = "returned"
    /\ NoNameColumn(raw_df(sd_table))
    /\ sd_last = "missing_identity"
    /\ sd_result = EmptyFrame

\* C9: in test mode the window is the 22 dates today .. today-21, newest first;
\* a returned result stamped with date E is the complete result of E, and every
\* newer date of the window was tried before it and gave nothing; an empty
\* result is returned only after all 22 dates were tried and gave nothing.
StampColumn == IF sd_feed = "new_stock" THEN "shengou_riqi" ELSE "shangshi_riqi"
Stamp == CHOOSE k \in Offsets : DateStr(k) = sd_result.rows[1][StampColumn]
C9_LookbackMonotone ==
    (sd_pc = "returned" /\ sd_mode)
        => IF sd_result.rows # <<>>
           THEN /\ \A i \in 1..Len(sd_result.rows) :
                    sd_result.rows[i][StampColumn] = DateStr(Stamp)
                /\ sd_tried[Stamp] = "complete"
                /\ \A d \in 0..(Stamp - 1) : sd_tried[d] = "nothing"
           ELSE /\ Cardinality(Offsets) = 22
                /\ \A d \in Offsets : sd_tried[d] = "nothing"
C9_Witness ==
    /\ sd_pc = "returned"
    /\ sd_mode
    /\ sd_result.rows # <<>>
    /\ Stamp = 1
    /\ sd_table.rows = {2, 3}
    /\ sd_table.head = 1

\* C10: every row of a returned result has a code and a short name that are
\* not null.
C10_NoPartialRows ==
    sd_pc = "returned"
        => \A i \in 1..Len(sd_result.rows) :
            /\ sd_result.rows[i]["gupiao_daima"] # NULL
            /\ sd_result.rows[i]["gupiao_jiancheng"] # NULL

\* Whether the calendar query returns and its table converts without raising.
CalendarParses ==
    /\ cal_query = "ok"
    /\ cal_table.hasOpen
    /\ \A i \in cal_table.rows :
        CalRowShapes[i].trade_date # NaT /\ CalRowShapes[i].is_open # NULL

\* C11: is_trading_day(date) returns a boolean in every case. When the query
\* and the parse of both columns succeed it is the open flag of the date's row,
\* false with no such row; otherwise it is true exactly for Monday..Friday.
C11_CalendarFallback ==
    cal_pc = "returned"
        => /\ cal_ret \in BOOLEAN
           /\ CalendarParses
                => cal_ret = (\E i \in cal_table.rows :
                                /\ CalRowShapes[i].trade_date = ToString(cal_date)
                                /\ CalRowShapes[i].is_open = "1")
           /\ ~CalendarParses => cal_ret = (cal_date % 7 \in 0..4)
C11_Witness ==
    /\ cal_pc = "returned"
    /\ cal_query = "raises"
    /\ cal_table = [hasOpen |-> TRUE, rows |-> {2}]
    /\ cal_date = 0
    /\ cal_ret = TRUE

\* C12: a call of akshare_retry makes between one and three attempts; every
\* attempt before the last raised; the call returns on the first attempt that
\* does not raise, with that attempt's result; and it raises only after three
\* attempts that all raised.
C12_BoundedRetry ==
    /\ Len(rt_log) <= 3
    /\ \A i \in 1..(Len(rt_log) - 1) : rt_log[i]
    /\ rt_pc = "call" => Len(rt_log) < 3 /\ \A i \in 1..Len(rt_log) : rt_log[i]
    /\ rt_pc = "returned"
        => /\ Len(rt_log) >= 1
           /\ ~rt_log[Len(rt_log)]
           /\ rt_value = Len(rt_log)
    /\ rt_pc = "raised"
        => /\ Len(rt_log) = 3
           /\ \A i \in 1..3 : rt_log[i]
           /\ rt_value = 0
    /\ rt_pc \in {"returned", "raised"}
        => akshare_retry([n \in 1..3 |-> IF n <= Len(rt_log) THEN rt_log[n] ELSE TRUE])
             = [raised |-> rt_pc = "raised", calls |-> Len(rt_log)]
C12_Witness ==
    /\ rt_pc = "returned"
    /\ rt_log = <<TRUE, TRUE, FALSE>>
    /\ rt_value = 3

\* C13: an invocation of main(), whatever the task, the upstream, the webhook
\* and the data/ directory do, reaches its end, and at its end it has printed a
\* response with a status.
C13_RunToCompletion ==
    /\ [](pc = "done"
            => response.status \in {"skipped", "success", "partial_success", "failed", "error"})
    /\ (pc # "idle") ~> (pc = "done")
C13_Witness ==
    /\ pc = "done"
    /\ IsPushTask
    /\ run["new_stock"].flagAtCheck /\ ~run["new_stock"].skipped
    /\ run["new_stock"].raised /\ run["listing"].raised
    /\ sent = <<>>
    /\ ret["new_stock"] = FALSE
    /\ response.status = "partial_success"

\* The flag of the feed of the side-by-side runs; a flag write that made the
\* file; a flag write that raised.
FlagSet == <<lg_feed, today>> \in flags
Made(p) == lg[p].io \in {"ok", "write_fails"}
WriteFailed(p) == lg[p].io \in {"open_fails", "write_fails"}

\* C14 (as claimed): a process whose flag read failed goes on to fetch and send;
\* a process whose flag write failed returns True and leaves the flag unset,
\* and a non-test process that begins after it on the same day sends again.
C14_LedgerFaults ==
    \A p \in Procs :
        /\ lg[p].unreadable
            => /\ ~lg[p].is_pushed
               /\ lg[p].pc = "done" => lg[p].fetches = 1 /\ lg[p].sends = 1
        /\ (lg[p].pc = "done" /\ WriteFailed(p))
            => /\ lg[p].ret = TRUE
               /\ (\A q \in Procs \ {p} : ~Made(q)) => ~FlagSet
               /\ \A q \in Procs \ {p} :
                    (p \in lg[q].after /\ ~lg[q].test /\ lg[q].pc = "done")
                        => lg[q].sends = 1

\* C14 (amended): a process whose flag read failed goes on to fetch and send;
\* a process whose flag write failed returns True after a confirmed send; the
\* flag is set exactly when some write made the flag file, so it is unset after
\* a write that could not make the file and set after one that made it and
\* then raised; and a non-test process sends exactly when its read did not
\* answer that the flag is set, which it answers only for a flag that exists.
C14_LedgerFaultsAmended ==
    /\ FlagSet <=> \E q \in Procs : Made(q)
    /\ \A p \in Procs :
        /\ lg[p].unreadable
            => /\ ~lg[p].is_pushed
               /\ lg[p].pc = "done" => lg[p].fetches = 1 /\ lg[p].sends = 1
        /\ (lg[p].pc = "done" /\ WriteFailed(p))
            => lg[p].ret = TRUE /\ lg[p].confirmed
        /\ lg[p].is_pushed => lg[p].flagAtCheck /\ ~lg[p].unreadable
        /\ (lg[p].pc = "done" /\ ~lg[p].test)
            => (lg[p].sends = 1 <=> ~lg[p].is_pushed)
C14_Witness ==
    /\ lg["p1"].pc = "done" /\ lg["p1"].io = "open_fails" /\ lg["p1"].ret = TRUE
    /\ lg["p2"].pc = "done" /\ lg["p2"].after = {"p1"}
    /\ lg["p2"].unreadable /\ lg["p2"].confirmed
    /\ lg["p2"].io = "write_fails" /\ lg["p2"].ret = TRUE
    /\ FlagSet

\* C15: a process killed between its confirmed send and its flag write has
\* written no flag, so the flag is unset unless another process wrote it, and a
\* non-test process that begins after the crash fetches and sends again; and
\* whatever crashes, a flag that is set was written by a non-test process after
\* the webhook confirmed its message.
C15_CrashWindow ==
    /\ FlagSet => \E p \in Procs : Made(p) /\ lg[p].confirmed /\ ~lg[p].test
    /\ \A p \in Procs :
        lg[p].crashedAt = "mark"
            => /\ lg[p].confirmed
               /\ lg[p].io = "none"
               /\ (\A q \in Procs \ {p} : ~Made(q)) => ~FlagSet
               /\ \A q \in Procs \ {p} :
                    (p \in lg[q].after /\ ~lg[q].test /\ lg[q].pc = "done")
                        => lg[q].fetches = 1 /\ lg[q].sends = 1
C15_Witness ==
    /\ lg["p1"].crashedAt = "mark"
    /\ lg["p2"].after = {"p1"}
    /\ ~lg["p2"].test
    /\ lg["p2"].pc = "done"
    /\ lg["p2"].confirmed
    /\ ~lg["p2"].unreadable

\* C16: however the steps of two processes of one feed interleave, the flag is
\* set only with a confirmed non-test delivery of the feed that day; a process
\* sends at most once; and a non-test process skips only when another process
\* has delivered. The deliveries of the day may be two.
C16_BenignRace ==
    /\ FlagSet => \E p \in Procs : lg[p].confirmed /\ ~lg[p].test
    /\ \A p \in Procs :
        /\ lg[p].fetches <= 1 /\ lg[p].sends <= 1
        /\ lg[p].is_pushed
            => \E q \in Procs \ {p} : lg[q].confirmed /\ ~lg[q].test
C16_Witness ==
    \A p \in Procs :
        /\ lg[p].pc = "done"
        /\ ~lg[p].test
        /\ lg[p].after = {}
        /\ ~lg[p].flagAtCheck /\ ~lg[p].unreadable
        /\ lg[p].confirmed
        /\ lg[p].io = "ok"

\* The step of a non-test push operation that reads its flag and finds it set.
C17_SkipStep ==
    \A f \in Feeds :
        (~run[f].checked /\ run'[f].checked /\ run'[f].flagAtCheck)
            => /\ run'[f].skipped
               /\ ret'[f] = TRUE
               /\ flags' = flags
               /\ sent' = sent
               /\ delivered' = delivered

\* C17: the step at which a non-test push operation reads its flag and finds it
\* set returns True and changes neither the flag files nor the messages sent
\* nor the deliveries; and an operation that skipped has made no fetch, no send
\* and no flag write.
C17_SkipNoSideEffects ==
    /\ [](\A f \in Feeds :
            run[f].skipped
                => /\ run[f].flagAtCheck
                   /\ run[f].fetches = 0 /\ run[f].sends = 0 /\ ~run[f].marked
                   /\ ret[f] = TRUE)
    /\ [][C17_SkipStep]_vars
C17_Witness ==
    /\ pc = "done"
    /\ call.entry = "direct"
    /\ ~call.test
    /\ cur = "listing"
    /\ run["listing"].skipped
    /\ ret["listing"] = TRUE
    /\ sent = <<>>
    /\ flags = {<<"listing", today>>}

\* What a test-mode invocation has done at each of its positions.
C18_State ==
    call.test
        => /\ ~run[cur].checked /\ ~run[cur].skipped /\ ~run[cur].marked
           /\ pc # "mark"
           /\ pc = "done"
                => /\ run[cur].fetches = 1 /\ run[cur].sends = 1
                   /\ ret[cur] = SentOk(cur)

\* C18: a push operation called with test=True does not read the flag: it
\* makes its fetch and its send whether or not the flag of the day exists; it
\* never reaches the flag write; and no step of a test-mode invocation changes
\* the flag files.
C18_TestBypassesLedger ==
    /\ [](C18_State)
    /\ [][call.test => flags' = flags]_vars
C18_Witness ==
    /\ pc = "done"
    /\ call.test
    /\ cur = "new_stock"
    /\ flags = {<<"new_stock", today>>}
    /\ run["new_stock"].fetches = 1
    /\ SentOk("new_stock")
    /\ ret["new_stock"] = TRUE

\* The send step and the flag-write step of an operation whose fetch was empty.
C19_SendStep ==
    (pc = "send" /\ pc' # "send" /\ data = "empty" /\ ~call.test)
        => IF sent' # sent
           THEN /\ sent' = Append(sent, [feed |-> cur, body |-> "no_data", test |-> FALSE])
                /\ pc' = "mark"
           ELSE /\ ret'[cur] = FALSE
                /\ flags' = flags
C19_MarkStep ==
    (pc = "mark" /\ pc' # "mark" /\ data = "empty")
        => /\ ret'[cur] = TRUE
           /\ run'[cur].marked => <<cur, today>> \in flags'

\* C19: in a non-test push operation whose fetch returned an empty table, the
\* send that the webhook confirms carries the no-data text and is followed by
\* the flag write; the flag write returns True to the caller and, when its I/O
\* goes through, sets the flag of the day; a failed send returns False and
\* writes nothing. A later non-test operation that finds the flag set makes no
\* fetch, so what the upstream holds by then plays no part.
C19_EmptyResultIsPushed ==
    /\ [](\A f \in Feeds :
            (~call.test /\ run[f].checked /\ run[f].flagAtCheck)
                => run[f].skipped /\ run[f].fetches = 0)
    /\ [][C19_SendStep /\ C19_MarkStep]_vars
C19_Witness ==
    /\ pc = "done"
    /\ ~call.test
    /\ call.entry = "direct"
    /\ cur = "new_stock"
    /\ ~run["new_stock"].raised
    /\ sent = <<[feed |-> "new_stock", body |-> "no_data", test |-> FALSE]>>
    /\ run["new_stock"].marked
    /\ ret["new_stock"] = TRUE
    /\ <<"new_stock", today>> \in flags

\* The ways in which one candidate date of the scan gives nothing.
FailKinds ==
    {"fetch_exception", "empty_raw", "no_date_column", "date_parse_failed", "no_rows",
     "missing_identity", "incomplete"}

\* C20: a candidate date that ends in a fetch exception, an empty table, no
\* date column, a failed date conversion, no rows of the date, a missing code
\* or name column, or an incomplete result leaves the scan running with
\* nothing returned; a returned result with rows never has a null code in all
\* of them; and the empty result is returned only after every candidate date
\* was tried and gave nothing.
C20_ScanContinues ==
    LET dates == dates_to_try(sd_mode)
    IN /\ (sd_pc = "scan" /\ sd_i > 0)
            => /\ sd_last \in FailKinds
               /\ sd_result = EmptyFrame
               /\ \A j \in 1..sd_i : sd_tried[dates[j]] = "nothing"
       /\ sd_pc = "returned"
            => /\ sd_result.rows = <<>> <=> sd_last # "complete"
               /\ sd_result.rows = <<>>
                    => /\ sd_result = EmptyFrame
                       /\ sd_i = Len(dates)
                       /\ \A j \in 1..Len(dates) : sd_tried[dates[j]] = "nothing"
               /\ sd_result.rows # <<>>
                    => \E i \in 1..Len(sd_result.rows) :
                        sd_result.rows[i]["gupiao_daima"] # NULL
C20_Witness ==
    /\ sd_pc = "returned"
    /\ sd_mode
    /\ sd_table = [head |-> 1, rows |-> {1, 2}]
    /\ sd_tried[0] = "nothing"
    /\ sd_tried[1] = "complete"
    /\ Len(sd_result.rows) = 1

\* The rows of the fetched subscription table for the date k days before
\* today, and whether they are rows with a code and a short name: the date
\* column is found and parses, the date has rows, the code and the name column
\* are found, and no row of the date has a null code or name.
C21_Target(k) ==
    LET t == raw_df(sd_table)
    IN SelectSeq(t.rows, LAMBDA r : r[SubscriptionDateCol(t.cols).field] = DateStr(k))
C21_Identified(k) ==
    LET t == raw_df(sd_table)
    IN /\ SubscriptionDateCol(t.cols) # NoCol
       /\ t.dateKind # "unparseable"
       /\ C21_Target(k) # <<>>
       /\ CodeCol(t.cols) # NoCol /\ NameCol(t.cols) # NoCol
       /\ CodeCol(t.cols) # NameCol(t.cols)
       /\ \A i \in 1..Len(C21_Target(k)) :
            /\ C21_Target(k)[i][CodeCol(t.cols).field] # NULL
            /\ C21_Target(k)[i][NameCol(t.cols).field] # NULL
C21_Optional(r, col) ==
    IF col # NoCol /\ r[col.field] # NULL THEN r[col.field] ELSE Unknown

\* C21: when the subscription scan has fetched the table for a candidate date
\* whose rows all have a code and a short name, the candidate is accepted and
\* returned, whether the price or the cap column is absent or is null in those
\* rows; every returned row has the price and the cap of its source row where
\* the source has one, and the sentinel otherwise.
C21_PriceCapOptional ==
    LET k == dates_to_try(sd_mode)[sd_i]
        t == raw_df(sd_table)
    IN (sd_feed = "new_stock" /\ sd_i > 0 /\ sd_last # "fetch_exception"
            /\ C21_Identified(k))
        => /\ sd_last = "complete"
           /\ sd_pc = "returned"
           /\ Len(sd_result.rows) = Len(C21_Target(k))
           /\ \A i \in 1..Len(sd_result.rows) :
                /\ sd_result.rows[i]["faxing_jiage"]
                        = C21_Optional(C21_Target(k)[i], PriceCol(t.cols))
                /\ sd_result.rows[i]["shengou_shangxian"]
                        = C21_Optional(C21_Target(k)[i], LimitCol(t.cols))

\* C22: the flag file that the flag write of a push operation makes is the one
\* of the date whose flag the operation read at its start, also when midnight
\* passes in between; and a flag of the day after a delivery, with no delivery
\* on that day, never exists while the flag of the delivery's day does not.
C22_DateConsistency ==
    /\ \A f \in Feeds :
        (run[f].checked /\ run[f].marked) => <<f, run[f].chkDay>> \in flags
    /\ \A f \in Feeds, d \in 0..(MaxDay - 1) :
        (<<f, d>> \in delivered /\ <<f, d + 1>> \in flags /\ <<f, d + 1>> \notin delivered)
            => <<f, d>> \in flags
====
